---- MODULE Spec2Model ----
(***************************************************************************)
(* ico_to_svg: frame-size selection, size-string parsing, scanline         *)
(* vectorization, SVG writing, the conversion pipeline and the CLI's       *)
(* argument list.                                                          *)
(*                                                                         *)
(* SpecSelect    : one call of select_size on a bounded list of sizes.     *)
(* SpecVectorize : one call of vectorize on a bounded RGBA bitmap, one     *)
(*                 action per loop test / loop body of the source.         *)
(* SpecPath      : one call of runs_to_path_d on a bounded list of runs.   *)
(* SpecVector    : vectorize followed by write_svg_vector.                 *)
(* SpecParse     : one call of parse_size_arg on a bounded string.         *)
(* SpecConvert   : one call of convert_ico_to_svg, one action per          *)
(*                 statement, Pillow's outcomes chosen nondeterministically.*)
(* SpecCli       : main's treatment of its argument list.                  *)
(* SpecInfo      : main's info subcommand, one action per statement group. *)
(* SpecScan      : SpecVectorize at the default threshold, with weak       *)
(*                 fairness of the call's steps (termination).             *)
(* SpecCalls     : two calls of vectorize on different bitmaps, their      *)
(*                 steps interleaved.                                      *)
(***************************************************************************)
EXTENDS Integers, Sequences, FiniteSets, TLC

(***************************************************************************)
(* Bounds of the model                                                     *)
(***************************************************************************)
\* largest width / height of an available frame size
MaxDim == 3
\* longest list of available sizes
MaxLen == 2
\* largest number of pixels (width * height) of a bitmap
MaxPixels == 5

\* longest list of runs given to runs_to_path_d
MaxRuns == 2

\* longest size string given to parse_size_arg
MaxStrLen == 4

\* most frames of an icon file given to convert_ico_to_svg
MaxFrames == 3

\* most command-line arguments given to main
MaxArgs == 3

(***************************************************************************)
(* State                                                                   *)
(***************************************************************************)
VARIABLES
    \* select_size
    available,        \* List[Tuple[int, int]]
    desired,          \* Tuple[int, int] | None
    sel_pc,           \* "call" | "done"
    sel_result,       \* what the call produced: a returned size or a raised error
    \* vectorize
    image,            \* the bitmap: [size |-> <<w, h>>, pixels |-> [<<x, y>> |-> <<r, g, b, a>>]]
    alpha_threshold,
    w, h,             \* image.size, unpacked on entry
    y, x,             \* loop variables
    color,            \* (r, g, b, 255) of the open run
    x_start,          \* first column of the open run
    color_runs,       \* dict: color -> list of Run
    key_order,        \* the dict's keys in insertion order, the order .items() iterates in
    vec_pc,           \* position in vectorize
    vec_result,       \* the returned triple (color_runs, w, h), or NoResult
    \* runs_to_path_d
    runs,             \* list[Run]
    path_pc,          \* "call" | "done"
    path_d,           \* the returned string
    \* write_svg_vector
    background,       \* str | None
    svg_pc,           \* "call" | "done"
    output_file,      \* what dwg.save() wrote to the output path, or NoFile
    \* parse_size_arg
    size_str,         \* str
    parse_pc,         \* "call" | "done"
    parse_result,     \* the returned (w, h) or the raised ValueError
    \* convert_ico_to_svg
    input_path,       \* the file at input_path: missing, not an icon, or an icon's frames
    size,             \* Optional[str]
    mode,             \* str
    locals,           \* sizes, desired, selected, img
    conv_pc,          \* "load" | "parse" | "select" | "open" | "retry" | "write" |
                      \* "vectorize" | "done"
    conv_result,      \* returned None, or the exception that left the function
    decoder_errors,   \* every exception Pillow raised in this call, in order
    output_path,      \* the documents written to output_path in this call, in order
    \* cli.main
    main_argv,        \* the argument list main was called with
    argv,             \* the local argv
    args,             \* what parser.parse_args(argv) made of it
    cli_pc,           \* "call" | "parse" | "done"
    \* cli.main, the info subcommand
    info_args,        \* args: input (the file there), size, json
    sizes,            \* the local sizes
    info_pc,          \* "load" | "filter" | "print" | "done"
    info_result,      \* returned None, or the exception that left main
    stdout,           \* the lines printed
    \* two calls of vectorize running at once
    bitmaps,          \* the bitmap each call was given
    calls             \* the locals of each call (its frame) and its position

selVars == <<available, desired, sel_pc, sel_result>>
vecVars == <<image, alpha_threshold, w, h, y, x, color, x_start, color_runs, key_order,
             vec_pc, vec_result>>
pathVars == <<runs, path_pc, path_d>>
svgVars == <<background, svg_pc, output_file>>
parseVars == <<size_str, parse_pc, parse_result>>
convVars == <<input_path, size, mode, locals, conv_pc, conv_result, decoder_errors, output_path>>
cliVars == <<main_argv, argv, args, cli_pc>>
infoVars == <<info_args, sizes, info_pc, info_result, stdout>>
callVars == <<bitmaps, calls>>
vars == <<selVars, vecVars, pathVars, svgVars, parseVars, convVars, cliVars, infoVars, callVars>>

\* what a step of one function leaves alone: the variables of the others
exceptSel == <<vecVars, pathVars, svgVars, parseVars, convVars, cliVars, infoVars, callVars>>
exceptVec == <<selVars, pathVars, svgVars, parseVars, convVars, cliVars, infoVars, callVars>>
exceptPath == <<selVars, vecVars, svgVars, parseVars, convVars, cliVars, infoVars, callVars>>
exceptSvg == <<selVars, vecVars, pathVars, parseVars, convVars, cliVars, infoVars, callVars>>
exceptParse == <<selVars, vecVars, pathVars, svgVars, convVars, cliVars, infoVars, callVars>>
exceptConv == <<selVars, vecVars, pathVars, svgVars, parseVars, cliVars, infoVars, callVars>>
exceptCli == <<selVars, vecVars, pathVars, svgVars, parseVars, convVars, infoVars, callVars>>
exceptInfo == <<selVars, vecVars, pathVars, svgVars, parseVars, convVars, cliVars, callVars>>

\* Python's None; like None, the empty tuple is falsy in `if not desired`
None == <<>>
\* None where a str is expected, kept apart from every str: its element is no character
NoneStr == <<"None">>
NoResult == [returned |-> FALSE]
\* an output path nothing was written to
NoFile == [written |-> FALSE]

(***************************************************************************)
(* select_size                                                             *)
(***************************************************************************)
abs(n) == IF n < 0 THEN -n ELSE n

\* Python's ordering of equal-length tuples of integers: a < b
RECURSIVE TupleLess(_, _)
TupleLess(a, b) ==
    IF a = <<>> \/ b = <<>> THEN a = <<>> /\ b # <<>>
    ELSE IF Head(a) # Head(b) THEN Head(a) < Head(b)
    ELSE TupleLess(Tail(a), Tail(b))

\* variant of LargestKey: the area left out of the key
LargestKey_NoArea(s) == <<s[1], s[2]>>

\* key=lambda s: (s[0] * s[1], s[0], s[1])
LargestKey(s) == <<s[1] * s[2], s[1], s[2]>>

\* variant of NearestKey: the area ahead of the squareness
NearestKey_AreaFirst(s) == <<s[1] * s[2], abs(s[1] - s[2]), s[1], s[2]>>

\* variant of NearestKey: the squareness alone
NearestKey_SquareOnly(s) == <<abs(s[1] - s[2])>>

\* key=lambda s: (abs(s[0] - s[1]), s[0] * s[1], s[0], s[1])
NearestKey(s) == <<abs(s[1] - s[2]), s[1] * s[2], s[1], s[2]>>

\* max(available, key=LargestKey): the first element no other element's key exceeds
Largest(seq) ==
    LET i == CHOOSE i \in 1..Len(seq) :
                 /\ \A j \in 1..Len(seq) : ~TupleLess(LargestKey(seq[i]), LargestKey(seq[j]))
                 /\ \A j \in 1..(i - 1) : TupleLess(LargestKey(seq[j]), LargestKey(seq[i]))
    IN seq[i]

\* min(larger, key=NearestKey): the first element whose key no other element's key is below
Nearest(seq) ==
    LET i == CHOOSE i \in 1..Len(seq) :
                 /\ \A j \in 1..Len(seq) : ~TupleLess(NearestKey(seq[j]), NearestKey(seq[i]))
                 /\ \A j \in 1..(i - 1) : TupleLess(NearestKey(seq[i]), NearestKey(seq[j]))
    IN seq[i]

\* (dw, dh) in available
Contains(seq, s) == \E i \in 1..Len(seq) : seq[i] = s

\* [(w, h) for (w, h) in available if w >= dw and h >= dh]
Larger(seq, d) == SelectSeq(seq, LAMBDA s : s[1] >= d[1] /\ s[2] >= d[2])

Raise(msg) == [raised |-> TRUE, error |-> msg]
Return(v) == [raised |-> FALSE, value |-> v]

\* variant of select_size: the exact-match test left out
select_size_NoExact(avail, des) ==
    IF avail = <<>> THEN Raise("No sizes available in ICO")
    ELSE LET largest == Largest(avail)
             larger == Larger(avail, des)
         IN IF des = None THEN Return(largest)
            ELSE IF larger # <<>> THEN Return(Nearest(larger))
            ELSE Return(largest)

\* variant of select_size: the fallback returns the first size, not the largest
select_size_FallbackFirst(avail, des) ==
    IF avail = <<>> THEN Raise("No sizes available in ICO")
    ELSE LET largest == Largest(avail)
             larger == Larger(avail, des)
         IN IF des = None THEN Return(largest)
            ELSE IF Contains(avail, des) THEN Return(des)
            ELSE IF larger # <<>> THEN Return(Nearest(larger))
            ELSE Return(avail[1])

\* variant of select_size: the emptiness test left out, so max() fails on the empty list
select_size_NoEmptyTest(avail, des) ==
    IF avail = <<>> THEN Raise("max() arg is an empty sequence")
    ELSE LET largest == Largest(avail)
             larger == Larger(avail, des)
         IN IF des = None THEN Return(largest)
            ELSE IF Contains(avail, des) THEN Return(des)
            ELSE IF larger # <<>> THEN Return(Nearest(larger))
            ELSE Return(largest)

\* variant of select_size: a requested size returned without looking it up
select_size_TrustDesired(avail, des) ==
    IF avail = <<>> THEN Raise("No sizes available in ICO")
    ELSE IF des = None THEN Return(Largest(avail))
    ELSE Return(des)

select_size(avail, des) ==
    IF avail = <<>> THEN Raise("No sizes available in ICO")
    ELSE LET largest == Largest(avail)
             larger == Larger(avail, des)
         IN IF des = None THEN Return(largest)
            ELSE IF Contains(avail, des) THEN Return(des)
            ELSE IF larger # <<>> THEN Return(Nearest(larger))
            ELSE Return(largest)

\* the one step of SpecSelect: the call of select_size(available, desired)
SelectSize ==
    /\ sel_pc = "call"
    /\ sel_result' = select_size(available, desired)
    /\ sel_pc' = "done"
    /\ UNCHANGED <<available, desired>>
    /\ UNCHANGED exceptSel

(***************************************************************************)
(* vectorize                                                               *)
(***************************************************************************)
\* RGBA pixels the bitmaps are drawn from: two colours; alphas 255, 16 and 15
Palette == { <<255, 0, 0, 255>>, <<0, 255, 0, 255>>, <<255, 0, 0, 16>>, <<0, 255, 0, 15>> }
\* thresholds: 0 (everything solid), the CLI default 16, and the tests' 128
Thresholds == {0, 16, 128}

Coords(wd, ht) == (0..(wd - 1)) \X (0..(ht - 1))

\* every RGBA bitmap of at most MaxPixels pixels, empty ones (w = 0 or h = 0) included
Images ==
    UNION { { [size |-> <<wd, ht>>, pixels |-> p] : p \in [Coords(wd, ht) -> Palette] } :
            <<wd, ht>> \in { d \in (0..MaxPixels) \X (0..MaxPixels) : d[1] * d[2] <= MaxPixels } }

\* @dataclass Run
Run(row, x1, x2) == [y |-> row, x1 |-> x1, x2 |-> x2]

\* `not isinstance(pixel, tuple) or len(pixel) < 4`: never true of an RGBA bitmap
Malformed(pixel) == Len(pixel) < 4

\* variant of Transparent: a pixel of alpha equal to the threshold counted transparent
Transparent_LessEq(pixel, threshold) == pixel[4] <= threshold

\* `a < alpha_threshold`
Transparent(pixel, threshold) == pixel[4] < threshold

\* variant of Skipped: the outer loop's alpha test left out
Skipped_NoAlpha(pixel, threshold) == Malformed(pixel)

\* the outer loop's `continue` branches
Skipped(pixel, threshold) == Malformed(pixel) \/ Transparent(pixel, threshold)

\* variant of Normalize: the pixel's own alpha kept in the key
Normalize_KeepAlpha(pixel) == <<pixel[1], pixel[2], pixel[3], pixel[4]>>

\* color = (r, g, b, 255)
Normalize(pixel) == <<pixel[1], pixel[2], pixel[3], 255>>

\* variant of Breaks: the inner loop's alpha test left out
Breaks_NoAlpha(pixel2, c, threshold) ==
    \/ Malformed(pixel2)
    \/ <<pixel2[1], pixel2[2], pixel2[3]>> # <<c[1], c[2], c[3]>>

\* variant of Breaks: the colour comparison inverted
Breaks_EqColor(pixel2, c, threshold) ==
    \/ Malformed(pixel2)
    \/ Transparent(pixel2, threshold)
    \/ <<pixel2[1], pixel2[2], pixel2[3]>> = <<c[1], c[2], c[3]>>

\* the inner loop's `break` branches, for the open run of colour c
Breaks(pixel2, c, threshold) ==
    \/ Malformed(pixel2)
    \/ Transparent(pixel2, threshold)
    \/ <<pixel2[1], pixel2[2], pixel2[3]>> # <<c[1], c[2], c[3]>>

\* variant of SetDefaultAppend: the run put at the front of the colour's list
SetDefaultAppend_Prepend(d, k, run) ==
    [c \in DOMAIN d \cup {k} |-> IF c \in DOMAIN d THEN (IF c = k THEN <<run>> \o d[c] ELSE d[c])
                                 ELSE <<run>>]

\* variant of SetDefaultAppend: the colour's list replaced, not extended
SetDefaultAppend_Overwrite(d, k, run) ==
    [c \in DOMAIN d \cup {k} |-> IF c = k THEN <<run>> ELSE d[c]]

\* color_runs.setdefault(color, []).append(run)
SetDefaultAppend(d, k, run) ==
    [c \in DOMAIN d \cup {k} |-> IF c \in DOMAIN d THEN (IF c = k THEN Append(d[c], run) ELSE d[c])
                                 ELSE <<run>>]

\* a dict keeps a new key after the keys it already has
InsertionOrder(keys, k) ==
    IF \E i \in 1..Len(keys) : keys[i] = k THEN keys ELSE Append(keys, k)

\* w, h = image.size; pixels = image.load(); color_runs = {}
VecEnter ==
    /\ vec_pc = "call"
    /\ w' = image.size[1]
    /\ h' = image.size[2]
    /\ color_runs' = <<>>
    /\ key_order' = <<>>
    /\ y' = 0
    /\ vec_pc' = "for"
    /\ UNCHANGED <<image, alpha_threshold, x, color, x_start, vec_result>>
    /\ UNCHANGED exceptVec

\* for y in range(h): x = 0        (and `return color_runs, w, h` after the last row)
VecFor ==
    /\ vec_pc = "for"
    /\ IF y < h
       THEN /\ x' = 0
            /\ vec_pc' = "while"
            /\ UNCHANGED vec_result
       ELSE /\ vec_result' = [returned |-> TRUE, color_runs |-> color_runs,
                                keys |-> key_order, w |-> w, h |-> h]
            /\ vec_pc' = "done"
            /\ UNCHANGED x
    /\ UNCHANGED <<image, alpha_threshold, w, h, y, color, x_start, color_runs, key_order>>
    /\ UNCHANGED exceptVec

\* while x < w: one pass of the outer loop up to `x += 1` after `x_start = x`
VecWhile ==
    /\ vec_pc = "while"
    /\ IF x < w
       THEN LET pixel == image.pixels[<<x, y>>]
            IN IF Skipped(pixel, alpha_threshold)
               THEN /\ x' = x + 1
                    /\ UNCHANGED <<y, color, x_start, vec_pc>>
               ELSE /\ color' = Normalize(pixel)
                    /\ x_start' = x
                    /\ x' = x + 1
                    /\ vec_pc' = "inner"
                    /\ UNCHANGED y
       ELSE /\ y' = y + 1
            /\ vec_pc' = "for"
            /\ UNCHANGED <<x, color, x_start>>
    /\ UNCHANGED <<image, alpha_threshold, w, h, color_runs, key_order, vec_result>>
    /\ UNCHANGED exceptVec

\* variant of VecInner: the inner loop's `x += 1` left out
VecInner_NoAdvance ==
    /\ vec_pc = "inner"
    /\ IF x < w /\ ~Breaks(image.pixels[<<x, y>>], color, alpha_threshold)
       THEN /\ x' = x
            /\ UNCHANGED <<color_runs, key_order, vec_pc>>
       ELSE /\ color_runs' = SetDefaultAppend(color_runs, color, Run(y, x_start, x - 1))
            /\ key_order' = InsertionOrder(key_order, color)
            /\ vec_pc' = "while"
            /\ UNCHANGED x
    /\ UNCHANGED <<image, alpha_threshold, w, h, y, color, x_start, vec_result>>
    /\ UNCHANGED exceptVec

\* while x < w: one pass of the inner loop; on exit x_end = x - 1 and the run is stored
VecInner ==
    /\ vec_pc = "inner"
    /\ IF x < w /\ ~Breaks(image.pixels[<<x, y>>], color, alpha_threshold)
       THEN /\ x' = x + 1
            /\ UNCHANGED <<color_runs, key_order, vec_pc>>
       ELSE /\ color_runs' = SetDefaultAppend(color_runs, color, Run(y, x_start, x - 1))
            /\ key_order' = InsertionOrder(key_order, color)
            /\ vec_pc' = "while"
            /\ UNCHANGED x
    /\ UNCHANGED <<image, alpha_threshold, w, h, y, color, x_start, vec_result>>
    /\ UNCHANGED exceptVec

(***************************************************************************)
(* vectorize, two calls at once: each call has its own frame of locals     *)
(***************************************************************************)
\* the locals of a call that has not started
NewFrame(threshold) ==
    [alpha_threshold |-> threshold, w |-> 0, h |-> 0, y |-> 0, x |-> 0,
     color |-> <<0, 0, 0, 255>>, x_start |-> 0, color_runs |-> <<>>, key_order |-> <<>>,
     pc |-> "call", result |-> NoResult]

\* one step of vectorize on the frame f and the bitmap img: what VecEnter, VecFor,
\* VecWhile and VecInner do to the locals
VecStep(f, img) ==
    IF f.pc = "call"
    THEN [f EXCEPT !.w = img.size[1], !.h = img.size[2], !.color_runs = <<>>,
                   !.key_order = <<>>, !.y = 0, !.pc = "for"]
    ELSE IF f.pc = "for"
    THEN IF f.y < f.h
         THEN [f EXCEPT !.x = 0, !.pc = "while"]
         ELSE [f EXCEPT !.result = [returned |-> TRUE, color_runs |-> f.color_runs,
                                    keys |-> f.key_order, w |-> f.w, h |-> f.h],
                        !.pc = "done"]
    ELSE IF f.pc = "while"
    THEN IF f.x < f.w
         THEN IF Skipped(img.pixels[<<f.x, f.y>>], f.alpha_threshold)
              THEN [f EXCEPT !.x = f.x + 1]
              ELSE [f EXCEPT !.color = Normalize(img.pixels[<<f.x, f.y>>]), !.x_start = f.x,
                             !.x = f.x + 1, !.pc = "inner"]
         ELSE [f EXCEPT !.y = f.y + 1, !.pc = "for"]
    ELSE IF f.pc = "inner"
    THEN IF f.x < f.w /\ ~Breaks(img.pixels[<<f.x, f.y>>], f.color, f.alpha_threshold)
         THEN [f EXCEPT !.x = f.x + 1]
         ELSE [f EXCEPT !.color_runs = SetDefaultAppend(f.color_runs, f.color,
                                                       Run(f.y, f.x_start, f.x - 1)),
                        !.key_order = InsertionOrder(f.key_order, f.color),
                        !.pc = "while"]
    ELSE f

\* variant of StepCall: color_runs one table that every call uses
StepCall_SharedTable(cs, bs, c) ==
    [d \in DOMAIN cs |->
        IF d = c THEN VecStep(cs[c], bs[c])
        ELSE [cs[d] EXCEPT !.color_runs = VecStep(cs[c], bs[c]).color_runs,
                           !.key_order = VecStep(cs[c], bs[c]).key_order]]

\* a step of call c: its own locals change, nobody else's
StepCall(cs, bs, c) == [cs EXCEPT ![c] = VecStep(cs[c], bs[c])]

\* call c takes its next step; vectorize only reads its bitmap
CallStep(c) ==
    /\ calls[c].pc # "done"
    /\ calls' = StepCall(calls, bitmaps, c)
    /\ UNCHANGED bitmaps
    /\ UNCHANGED <<selVars, vecVars, pathVars, svgVars, parseVars, convVars, cliVars, infoVars>>

(***************************************************************************)
(* Strings: a str is the sequence of its characters                        *)
(***************************************************************************)
Digits == <<"0", "1", "2", "3", "4", "5", "6", "7", "8", "9">>

\* the f-string field {n} of an int: its decimal digits, a minus sign before a negative
RECURSIVE FormatInt(_)
FormatInt(n) ==
    IF n < 0 THEN <<"-">> \o FormatInt(-n)
    ELSE IF n < 10 THEN <<Digits[n + 1]>>
    ELSE FormatInt(n \div 10) \o <<Digits[(n % 10) + 1]>>

\* variant of Join: the separator after every part
RECURSIVE Join_Trailing(_, _)
Join_Trailing(sep, parts) ==
    IF parts = <<>> THEN <<>>
    ELSE Head(parts) \o sep \o Join_Trailing(sep, Tail(parts))

\* sep.join(parts)
RECURSIVE Join(_, _)
Join(sep, parts) ==
    IF parts = <<>> THEN <<>>
    ELSE IF Len(parts) = 1 THEN Head(parts)
    ELSE Head(parts) \o sep \o Join(sep, Tail(parts))

\* s.split(c) for a one-character separator c
RECURSIVE Split(_, _)
Split(s, c) ==
    IF \A i \in 1..Len(s) : s[i] # c THEN <<s>>
    ELSE LET k == CHOOSE i \in 1..Len(s) : s[i] = c /\ \A j \in 1..(i - 1) : s[j] # c
         IN <<SubSeq(s, 1, k - 1)>> \o Split(SubSeq(s, k + 1, Len(s)), c)

\* str.lower() of one character (ASCII letters)
LowerChar(c) ==
    LET upper == <<"A", "B", "C", "D", "E", "F", "G", "H", "I", "J", "K", "L", "M",
                   "N", "O", "P", "Q", "R", "S", "T", "U", "V", "W", "X", "Y", "Z">>
        lower == <<"a", "b", "c", "d", "e", "f", "g", "h", "i", "j", "k", "l", "m",
                   "n", "o", "p", "q", "r", "s", "t", "u", "v", "w", "x", "y", "z">>
    IN IF \E i \in 1..26 : upper[i] = c
       THEN lower[CHOOSE i \in 1..26 : upper[i] = c]
       ELSE c

\* s.lower()
Lower(s) == [i \in 1..Len(s) |-> LowerChar(s[i])]

\* c in s
HasChar(s, c) == \E i \in 1..Len(s) : s[i] = c

\* s.strip() (of the whitespace character " ")
RECURSIVE Strip(_)
Strip(s) ==
    IF s = <<>> THEN s
    ELSE IF Head(s) = " " THEN Strip(Tail(s))
    ELSE IF s[Len(s)] = " " THEN Strip(SubSeq(s, 1, Len(s) - 1))
    ELSE s

IsDigit(c) == \E v \in 0..9 : Digits[v + 1] = c
DigitValue(c) == CHOOSE v \in 0..9 : Digits[v + 1] = c

\* the number a string of decimal digits denotes
RECURSIVE DecimalValue(_)
DecimalValue(ds) ==
    IF ds = <<>> THEN 0
    ELSE 10 * DecimalValue(SubSeq(ds, 1, Len(ds) - 1)) + DigitValue(ds[Len(ds)])

\* int(s): surrounding whitespace dropped, an optional sign, then decimal digits;
\* anything else is ValueError
PyInt(s) ==
    LET t == Strip(s)
        signed == t # <<>> /\ t[1] \in {"+", "-"}
        body == IF signed THEN Tail(t) ELSE t
    IN IF body = <<>> \/ \E i \in 1..Len(body) : ~IsDigit(body[i])
       THEN [raised |-> TRUE, error |-> "invalid literal for int() with base 10"]
       ELSE [raised |-> FALSE,
             value |-> IF signed /\ t[1] = "-" THEN -DecimalValue(body) ELSE DecimalValue(body)]

(***************************************************************************)
(* parse_size_arg                                                          *)
(***************************************************************************)
\* variant of CheckPositive: only negative dimensions refused
CheckPositive_AllowZero(wd, ht) ==
    IF wd < 0 \/ ht < 0 THEN Raise("--size dimensions must be positive")
    ELSE Return(<<wd, ht>>)

\* if w <= 0 or h <= 0: raise ValueError(...); return w, h
CheckPositive(wd, ht) ==
    IF wd <= 0 \/ ht <= 0 THEN Raise("--size dimensions must be positive")
    ELSE Return(<<wd, ht>>)

\* variant of parse_size_arg: the separator looked for in the string as given
parse_size_arg_CaseSensitive(s) ==
    IF HasChar(s, "x")
    THEN LET parts == Split(s, "x")
         IN IF Len(parts) # 2 THEN Raise("--size must be like 256 or 256x256")
            ELSE IF PyInt(parts[1]).raised THEN PyInt(parts[1])
            ELSE IF PyInt(parts[2]).raised THEN PyInt(parts[2])
            ELSE CheckPositive(PyInt(parts[1]).value, PyInt(parts[2]).value)
    ELSE IF PyInt(s).raised THEN PyInt(s)
    ELSE CheckPositive(PyInt(s).value, PyInt(s).value)

parse_size_arg(s) ==
    IF HasChar(Lower(s), "x")
    THEN LET parts == Split(Lower(s), "x")
         IN IF Len(parts) # 2 THEN Raise("--size must be like 256 or 256x256")
            ELSE IF PyInt(parts[1]).raised THEN PyInt(parts[1])
            ELSE IF PyInt(parts[2]).raised THEN PyInt(parts[2])
            ELSE CheckPositive(PyInt(parts[1]).value, PyInt(parts[2]).value)
    ELSE IF PyInt(s).raised THEN PyInt(s)
    ELSE CheckPositive(PyInt(s).value, PyInt(s).value)

\* the one step of SpecParse: the call of parse_size_arg(size_str)
ParseSizeArg ==
    /\ parse_pc = "call"
    /\ parse_result' = parse_size_arg(size_str)
    /\ parse_pc' = "done"
    /\ UNCHANGED size_str
    /\ UNCHANGED exceptParse

(***************************************************************************)
(* runs_to_path_d                                                          *)
(***************************************************************************)
\* variant of RunPath: the inclusive end column in the H command
RunPath_Inclusive(run) ==
    <<"M">> \o FormatInt(run.x1) \o <<",">> \o FormatInt(run.y)
        \o <<"H">> \o FormatInt(run.x2) \o <<"V">> \o FormatInt(run.y + 1)
        \o <<"H">> \o FormatInt(run.x1) \o <<"Z">>

\* the loop body: x2 = run.x2 + 1; f"M{x1},{y}H{x2}V{y + 1}H{x1}Z"
RunPath(run) ==
    <<"M">> \o FormatInt(run.x1) \o <<",">> \o FormatInt(run.y)
        \o <<"H">> \o FormatInt(run.x2 + 1) \o <<"V">> \o FormatInt(run.y + 1)
        \o <<"H">> \o FormatInt(run.x1) \o <<"Z">>

\* the rectangle of `rows` stacked rows starting at the run
TallPath(run, rows) ==
    <<"M">> \o FormatInt(run.x1) \o <<",">> \o FormatInt(run.y)
        \o <<"H">> \o FormatInt(run.x2 + 1) \o <<"V">> \o FormatInt(run.y + rows)
        \o <<"H">> \o FormatInt(run.x1) \o <<"Z">>

\* the subpaths when a run directly below the open rectangle, with its columns, extends it
RECURSIVE MergeRows(_, _, _)
MergeRows(rs, first, rows) ==
    IF rs = <<>> THEN <<TallPath(first, rows)>>
    ELSE IF Head(rs).x1 = first.x1 /\ Head(rs).x2 = first.x2 /\ Head(rs).y = first.y + rows
         THEN MergeRows(Tail(rs), first, rows + 1)
    ELSE <<TallPath(first, rows)>> \o MergeRows(Tail(rs), Head(rs), 1)

\* variant of runs_to_path_d: vertically stacked runs merged into one rectangle
runs_to_path_d_Merging(rs) ==
    IF rs = <<>> THEN <<>> ELSE Join(<<" ">>, MergeRows(Tail(rs), Head(rs), 1))

runs_to_path_d(rs) == Join(<<" ">>, [i \in 1..Len(rs) |-> RunPath(rs[i])])

\* the one step of SpecPath: the call of runs_to_path_d(runs)
RunsToPathD ==
    /\ path_pc = "call"
    /\ path_d' = runs_to_path_d(runs)
    /\ path_pc' = "done"
    /\ UNCHANGED runs
    /\ UNCHANGED exceptPath

(***************************************************************************)
(* write_svg_vector                                                        *)
(***************************************************************************)
TransparentStr == <<"t", "r", "a", "n", "s", "p", "a", "r", "e", "n", "t">>
HexDigits == <<"0", "1", "2", "3", "4", "5", "6", "7", "8", "9", "a", "b", "c", "d", "e", "f">>

\* the digits of the format spec `x`
RECURSIVE FormatHex(_)
FormatHex(n) ==
    IF n < 16 THEN <<HexDigits[n + 1]>>
    ELSE FormatHex(n \div 16) \o <<HexDigits[(n % 16) + 1]>>

\* the f-string field {n:02x}: lowercase hex, zero-padded to two characters
Hex02(n) == IF n < 16 THEN <<"0">> \o FormatHex(n) ELSE FormatHex(n)

\* fill = f"#{r:02x}{g:02x}{b:02x}"
Fill(k) == <<"#">> \o Hex02(k[1]) \o Hex02(k[2]) \o Hex02(k[3])

\* variant of HasBackground: the comparison with "transparent" left out
HasBackground_NoTransparentTest(bg) == bg # NoneStr /\ bg # <<>>

\* `background and background != "transparent"`
HasBackground(bg) == (bg # NoneStr /\ bg # <<>>) /\ bg # TransparentStr

\* dwg.rect(insert=(0, 0), size=(width, height), fill=background)
RectElement(width, height, bg) ==
    [tag |-> "rect", insert |-> <<0, 0>>, size |-> <<width, height>>, fill |-> bg]

\* dwg.path(d=d, fill=fill, stroke="none")
PathElement(k, rs) ==
    [tag |-> "path", d |-> runs_to_path_d(rs), fill |-> Fill(k), stroke |-> "none"]

\* the document dwg.save() writes: the Drawing's attributes and the elements added, in order
write_svg_vector(table, keys, width, height, bg) ==
    [written |-> TRUE,
     size |-> <<FormatInt(width) \o <<"p", "x">>, FormatInt(height) \o <<"p", "x">>>>,
     viewBox |-> <<"0", " ", "0", " ">> \o FormatInt(width) \o <<" ">> \o FormatInt(height),
     elements |-> (IF HasBackground(bg) THEN <<RectElement(width, height, bg)>> ELSE <<>>)
                      \o [i \in 1..Len(keys) |-> PathElement(keys[i], table[keys[i]])]]

\* the call write_svg_vector(color_runs, w, h, output, bg) on what vectorize returned
WriteSvgVector(bg) ==
    /\ svg_pc = "call"
    /\ vec_pc = "done"
    /\ background' = bg
    /\ output_file' = write_svg_vector(vec_result.color_runs, vec_result.keys,
                                       vec_result.w, vec_result.h, bg)
    /\ svg_pc' = "done"
    /\ UNCHANGED exceptSvg

(***************************************************************************)
(* write_svg_raster                                                        *)
(***************************************************************************)
\* ImageColor.getrgb accepts the string: #rgb, #rrggbb, or a colour name
KnownColor(bg) ==
    \/ /\ Len(bg) \in {4, 7}
       /\ bg[1] = "#"
       /\ \A i \in 2..Len(bg) : \E d \in 1..16 : HexDigits[d] = bg[i]
    \/ bg \in { <<"r", "e", "d">>, <<"w", "h", "i", "t", "e">>, <<"b", "l", "a", "c", "k">> }

\* the PNG of the image, composited over the background when one is given, as a data URI
DataUri(img, bg) ==
    [mime |-> "image/png", encoding |-> "base64", image |-> img,
     over |-> IF HasBackground(bg) THEN bg ELSE NoneStr]

\* the document written, or the ValueError of Image.new for an unknown colour
write_svg_raster(img, bg) ==
    IF HasBackground(bg) /\ ~KnownColor(bg)
    THEN Raise("unknown color specifier")
    ELSE Return([written |-> TRUE,
                 size |-> <<FormatInt(img.size[1]), FormatInt(img.size[2])>>,
                 viewBox |-> <<"0", " ", "0", " ">> \o FormatInt(img.size[1]) \o <<" ">>
                                 \o FormatInt(img.size[2]),
                 elements |-> <<[tag |-> "image", href |-> DataUri(img, bg),
                                 x |-> <<"0">>, y |-> <<"0">>,
                                 width |-> FormatInt(img.size[1]),
                                 height |-> FormatInt(img.size[2])]>>])

(***************************************************************************)
(* convert_ico_to_svg, with load_ico_frames and open_ico_at_size           *)
(***************************************************************************)
MissingFile == [kind |-> "missing", frames |-> {}]
InvalidFile == [kind |-> "invalid", frames |-> {}]
IcoFile(frames) == [kind |-> "ico", frames |-> frames]

\* an exception raised inside Pillow
DecoderError(kind) == [raised |-> TRUE, error |-> kind]
Opened == [raised |-> FALSE]

\* Image.open(str(path)) and the decoding that follows it: no file, not an image, an
\* image, or a read that fails
OpenOutcomes(file) ==
    IF file.kind = "missing" THEN {DecoderError("FileNotFoundError")}
    ELSE IF file.kind = "invalid" THEN {DecoderError("UnidentifiedImageError")}
    ELSE {Opened, DecoderError("OSError")}

\* Image.open(str(path), sizes=[size]): as above, or the keyword refused
SizedOpenOutcomes(file) == OpenOutcomes(file) \cup {DecoderError("TypeError")}

\* list({...}): the elements of a set in some order
Orderings(S) ==
    { q \in [1..Cardinality(S) -> S] : \A i, j \in 1..Cardinality(S) : i # j => q[i] # q[j] }

\* the frame of the given size, as an RGBA bitmap
FrameImage(sz) == [size |-> sz, pixels |-> [p \in Coords(sz[1], sz[2]) |-> <<255, 0, 0, 255>>]]

\* the locals of convert_ico_to_svg before their assignment
NoLocals == [sizes |-> <<>>, desired |-> None, selected |-> None,
             img |-> [size |-> <<0, 0>>, pixels |-> <<>>]]

\* `if size`: neither None nor the empty string
Truthy(s) == s # NoneStr /\ s # <<>>

\* an exception leaves convert_ico_to_svg
ConvRaise(exc) ==
    /\ conv_result' = exc
    /\ conv_pc' = "done"

\* variant of ConvLoad: the output opened for writing before anything else
ConvLoad_OutputFirst ==
    /\ conv_pc = "load"
    /\ output_path' = Append(output_path, [written |-> TRUE])
    /\ \E out \in OpenOutcomes(input_path) :
          IF out.raised
          THEN /\ decoder_errors' = Append(decoder_errors, out)
               /\ ConvRaise(out)
               /\ UNCHANGED locals
          ELSE /\ \E q \in Orderings(input_path.frames) : locals' = [locals EXCEPT !.sizes = q]
               /\ conv_pc' = "parse"
               /\ UNCHANGED <<conv_result, decoder_errors>>
    /\ UNCHANGED <<input_path, size, mode>>
    /\ UNCHANGED exceptConv

\* sizes = load_ico_frames(input_path)
ConvLoad ==
    /\ conv_pc = "load"
    /\ \E out \in OpenOutcomes(input_path) :
          IF out.raised
          THEN /\ decoder_errors' = Append(decoder_errors, out)
               /\ ConvRaise(out)
               /\ UNCHANGED locals
          ELSE /\ \E q \in Orderings(input_path.frames) : locals' = [locals EXCEPT !.sizes = q]
               /\ conv_pc' = "parse"
               /\ UNCHANGED <<conv_result, decoder_errors>>
    /\ UNCHANGED <<input_path, size, mode, output_path>>
    /\ UNCHANGED exceptConv

\* desired = parse_size_arg(size) if size else None
ConvParse ==
    /\ conv_pc = "parse"
    /\ IF Truthy(size)
       THEN IF parse_size_arg(size).raised
            THEN /\ ConvRaise(parse_size_arg(size))
                 /\ UNCHANGED locals
            ELSE /\ locals' = [locals EXCEPT !.desired = parse_size_arg(size).value]
                 /\ conv_pc' = "select"
                 /\ UNCHANGED conv_result
       ELSE /\ locals' = [locals EXCEPT !.desired = None]
            /\ conv_pc' = "select"
            /\ UNCHANGED conv_result
    /\ UNCHANGED <<input_path, size, mode, decoder_errors, output_path>>
    /\ UNCHANGED exceptConv

\* selected = select_size(sizes, desired)
ConvSelect ==
    /\ conv_pc = "select"
    /\ IF select_size(locals.sizes, locals.desired).raised
       THEN /\ ConvRaise(select_size(locals.sizes, locals.desired))
            /\ UNCHANGED locals
       ELSE /\ locals' = [locals EXCEPT
                             !.selected = select_size(locals.sizes, locals.desired).value]
            /\ conv_pc' = "open"
            /\ UNCHANGED conv_result
    /\ UNCHANGED <<input_path, size, mode, decoder_errors, output_path>>
    /\ UNCHANGED exceptConv

\* open_ico_at_size, the try block: Image.open(str(path), sizes=[size]).convert("RGBA");
\* `except Exception` catches whatever it raises
ConvOpen ==
    /\ conv_pc = "open"
    /\ \E out \in SizedOpenOutcomes(input_path) :
          IF out.raised
          THEN /\ decoder_errors' = Append(decoder_errors, out)
               /\ conv_pc' = "retry"
               /\ UNCHANGED locals
          ELSE /\ locals' = [locals EXCEPT !.img = FrameImage(locals.selected)]
               /\ conv_pc' = "write"
               /\ UNCHANGED decoder_errors
    /\ UNCHANGED <<input_path, size, mode, conv_result, output_path>>
    /\ UNCHANGED exceptConv

\* open_ico_at_size, the except block: Image.open(str(path)).convert("RGBA"), the frame
\* Pillow opens when no size is asked for
ConvRetry ==
    /\ conv_pc = "retry"
    /\ \E out \in OpenOutcomes(input_path) :
          IF out.raised
          THEN /\ decoder_errors' = Append(decoder_errors, out)
               /\ ConvRaise(out)
               /\ UNCHANGED locals
          ELSE /\ \E sz \in input_path.frames : locals' = [locals EXCEPT !.img = FrameImage(sz)]
               /\ conv_pc' = "write"
               /\ UNCHANGED <<conv_result, decoder_errors>>
    /\ UNCHANGED <<input_path, size, mode, output_path>>
    /\ UNCHANGED exceptConv

\* if mode == "raster": write_svg_raster(img, output_path, background)
ConvWriteRaster ==
    /\ conv_pc = "write"
    /\ mode = "raster"
    /\ IF write_svg_raster(locals.img, background).raised
       THEN /\ ConvRaise(write_svg_raster(locals.img, background))
            /\ UNCHANGED output_path
       ELSE /\ output_path' = Append(output_path, write_svg_raster(locals.img, background).value)
            /\ conv_result' = Return(None)
            /\ conv_pc' = "done"
    /\ UNCHANGED <<input_path, size, mode, locals, decoder_errors>>
    /\ UNCHANGED exceptConv

\* else: the call vectorize(img, alpha_threshold)
ConvVectorize ==
    /\ conv_pc = "write"
    /\ mode # "raster"
    /\ image' = locals.img
    /\ vec_pc' = "call"
    /\ conv_pc' = "vectorize"
    /\ UNCHANGED <<alpha_threshold, w, h, y, x, color, x_start, color_runs, key_order, vec_result>>
    /\ UNCHANGED <<input_path, size, mode, locals, conv_result, decoder_errors, output_path>>
    /\ UNCHANGED <<selVars, pathVars, svgVars, parseVars, cliVars, infoVars, callVars>>

\* write_svg_vector(color_runs, w, h, output_path, background) on what vectorize returned
ConvWriteVector ==
    /\ conv_pc = "vectorize"
    /\ vec_pc = "done"
    /\ output_path' = Append(output_path,
                             write_svg_vector(vec_result.color_runs, vec_result.keys,
                                              vec_result.w, vec_result.h, background))
    /\ conv_result' = Return(None)
    /\ conv_pc' = "done"
    /\ UNCHANGED <<input_path, size, mode, locals, decoder_errors>>
    /\ UNCHANGED exceptConv

(***************************************************************************)
(* cli.main: the argument list                                             *)
(***************************************************************************)
ConvertWord == <<"c", "o", "n", "v", "e", "r", "t">>
InfoWord == <<"i", "n", "f", "o">>
VersionFlag == <<"-", "-", "v", "e", "r", "s", "i", "o", "n">>
HelpFlags == { <<"-", "h">>, <<"-", "-", "h", "e", "l", "p">> }

\* s.startswith("-")
StartsWithDash(s) == Len(s) >= 1 /\ s[1] = "-"

\* variant of LegacyArgv: "convert" put before option flags too
LegacyArgv_NoFlagTest(a) ==
    IF a # <<>> /\ a[1] \notin {ConvertWord, InfoWord}
    THEN <<ConvertWord>> \o a
    ELSE a

\* if argv and argv[0] not in {"convert", "info"} and not argv[0].startswith("-"):
\*     argv = ["convert", *argv]
LegacyArgv(a) ==
    IF a # <<>> /\ a[1] \notin {ConvertWord, InfoWord} /\ ~StartsWithDash(a[1])
    THEN <<ConvertWord>> \o a
    ELSE a

\* parser.parse_args(argv), as far as the top-level parser goes: its own options, then the
\* required subcommand, whose parser gets the rest
ParseArgs(a) ==
    IF a = <<>> THEN [cmd |-> "error", rest |-> a]
    ELSE IF a[1] \in HelpFlags THEN [cmd |-> "help", rest |-> <<>>]
    ELSE IF a[1] = VersionFlag THEN [cmd |-> "version", rest |-> <<>>]
    ELSE IF a[1] = ConvertWord THEN [cmd |-> "convert", rest |-> Tail(a)]
    ELSE IF a[1] = InfoWord THEN [cmd |-> "info", rest |-> Tail(a)]
    ELSE [cmd |-> "error", rest |-> a]

\* main, lines 31-34
CliNormalize ==
    /\ cli_pc = "call"
    /\ argv' = LegacyArgv(main_argv)
    /\ cli_pc' = "parse"
    /\ UNCHANGED <<main_argv, args>>
    /\ UNCHANGED exceptCli

\* main, line 71
CliParse ==
    /\ cli_pc = "parse"
    /\ args' = ParseArgs(argv)
    /\ cli_pc' = "done"
    /\ UNCHANGED <<main_argv, argv>>
    /\ UNCHANGED exceptCli

(***************************************************************************)
(* cli.main: the info subcommand                                           *)
(***************************************************************************)
\* key=lambda s: (s[0] * s[1], s[0], s[1])
InfoKey(s) == <<s[1] * s[2], s[1], s[2]>>

\* e put into the sorted list after the elements whose key is not greater: sorted() is stable
RECURSIVE SortedInsert(_, _)
SortedInsert(sorted, e) ==
    IF sorted = <<>> THEN <<e>>
    ELSE IF TupleLess(InfoKey(e), InfoKey(Head(sorted))) THEN <<e>> \o sorted
    ELSE <<Head(sorted)>> \o SortedInsert(Tail(sorted), e)

\* sorted(sizes, key=...)
RECURSIVE Sorted(_)
Sorted(seq) ==
    IF seq = <<>> THEN <<>>
    ELSE SortedInsert(Sorted(SubSeq(seq, 1, Len(seq) - 1)), seq[Len(seq)])

\* json.dumps({"width": w, "height": h})
JsonSize(s) ==
    <<"{", "\"", "w", "i", "d", "t", "h", "\"", ":", " ">> \o FormatInt(s[1]) \o <<",", " ", "\"", "h", "e", "i", "g", "h", "t", "\"", ":", " ">> \o FormatInt(s[2]) \o <<"}">>

\* json.dumps(out): the objects separated by ", " in brackets
JsonDumps(seq) ==
    <<"[">> \o Join(<<",", " ">>, [i \in 1..Len(seq) |-> JsonSize(seq[i])]) \o <<"]">>

\* f" - {w}x{h}"
TextSize(s) == <<" ", "-", " ">> \o FormatInt(s[1]) \o <<"x">> \o FormatInt(s[2])

\* what lines 92-104 print for the list
Report(seq, json) ==
    IF json THEN <<JsonDumps(Sorted(seq))>>
    ELSE IF seq = <<>> THEN <<<<"N", "o", " ", "s", "i", "z", "e", "s", " ", "f", "o", "u", "n", "d">>>>
    ELSE <<<<"A", "v", "a", "i", "l", "a", "b", "l", "e", " ", "s", "i", "z", "e", "s", ":">>>> \o [i \in 1..Len(seq) |-> TextSize(Sorted(seq)[i])]

\* an exception leaves main
InfoRaise(exc) ==
    /\ info_result' = exc
    /\ info_pc' = "done"

\* sizes = load_ico_frames(args.input)
InfoLoad ==
    /\ info_pc = "load"
    /\ \E out \in OpenOutcomes(info_args.input) :
          IF out.raised
          THEN /\ InfoRaise(out)
               /\ UNCHANGED sizes
          ELSE /\ sizes' \in Orderings(info_args.input.frames)
               /\ info_pc' = "filter"
               /\ UNCHANGED info_result
    /\ UNCHANGED <<info_args, stdout>>
    /\ UNCHANGED exceptInfo

\* variant of InfoFilter: the sizes filtered down to the requested one
InfoFilter_ExactOnly ==
    /\ info_pc = "filter"
    /\ IF Truthy(info_args.size)
       THEN IF parse_size_arg(info_args.size).raised
            THEN /\ InfoRaise(parse_size_arg(info_args.size))
                 /\ UNCHANGED sizes
            ELSE /\ sizes' = SelectSeq(sizes, LAMBDA s : s = parse_size_arg(info_args.size).value)
                 /\ info_pc' = "print"
                 /\ UNCHANGED info_result
       ELSE /\ info_pc' = "print"
            /\ UNCHANGED <<sizes, info_result>>
    /\ UNCHANGED <<info_args, stdout>>
    /\ UNCHANGED exceptInfo

\* if args.size: desired = parse_size_arg(args.size); selected = select_size(sizes, desired);
\*               sizes = [selected]
InfoFilter ==
    /\ info_pc = "filter"
    /\ IF Truthy(info_args.size)
       THEN IF parse_size_arg(info_args.size).raised
            THEN /\ InfoRaise(parse_size_arg(info_args.size))
                 /\ UNCHANGED sizes
            ELSE IF select_size(sizes, parse_size_arg(info_args.size).value).raised
            THEN /\ InfoRaise(select_size(sizes, parse_size_arg(info_args.size).value))
                 /\ UNCHANGED sizes
            ELSE /\ sizes' = <<select_size(sizes, parse_size_arg(info_args.size).value).value>>
                 /\ info_pc' = "print"
                 /\ UNCHANGED info_result
       ELSE /\ info_pc' = "print"
            /\ UNCHANGED <<sizes, info_result>>
    /\ UNCHANGED <<info_args, stdout>>
    /\ UNCHANGED exceptInfo

\* if args.json: print(json.dumps(out)) else: print(...) per size
InfoPrint ==
    /\ info_pc = "print"
    /\ stdout' = stdout \o Report(sizes, info_args.json)
    /\ info_result' = Return(None)
    /\ info_pc' = "done"
    /\ UNCHANGED <<info_args, sizes>>
    /\ UNCHANGED exceptInfo

(***************************************************************************)
(* Specifications                                                          *)
(***************************************************************************)
Sizes == (1..MaxDim) \X (1..MaxDim)
\* requested sizes: positive pairs, some larger than every available size
DesiredSizes == (1..(MaxDim + 1)) \X (1..(MaxDim + 1))
SizeLists == UNION { [1..n -> Sizes] : n \in 0..MaxLen }

SelIdle ==
    /\ available = <<>>
    /\ desired = None
    /\ sel_pc = "idle"
    /\ sel_result = NoResult

VecIdle ==
    /\ image = [size |-> <<0, 0>>, pixels |-> <<>>]
    /\ alpha_threshold = 0
    /\ w = 0
    /\ h = 0
    /\ y = 0
    /\ x = 0
    /\ color = <<0, 0, 0, 255>>
    /\ x_start = 0
    /\ color_runs = <<>>
    /\ key_order = <<>>
    /\ vec_pc = "idle"
    /\ vec_result = NoResult

PathIdle ==
    /\ runs = <<>>
    /\ path_pc = "idle"
    /\ path_d = <<>>

SvgIdle ==
    /\ background = NoneStr
    /\ svg_pc = "idle"
    /\ output_file = NoFile

ParseIdle ==
    /\ size_str = <<>>
    /\ parse_pc = "idle"
    /\ parse_result = NoResult

CallsIdle ==
    /\ bitmaps = <<>>
    /\ calls = <<>>

InfoIdle ==
    /\ info_args = [input |-> MissingFile, size |-> NoneStr, json |-> FALSE]
    /\ sizes = <<>>
    /\ info_pc = "idle"
    /\ info_result = NoResult
    /\ stdout = <<>>

CliIdle ==
    /\ main_argv = <<>>
    /\ argv = <<>>
    /\ args = NoResult
    /\ cli_pc = "idle"

ConvIdle ==
    /\ input_path = MissingFile
    /\ size = NoneStr
    /\ mode = "raster"
    /\ locals = NoLocals
    /\ conv_pc = "idle"
    /\ conv_result = NoResult
    /\ decoder_errors = <<>>
    /\ output_path = <<>>

InitSelect ==
    /\ available \in SizeLists
    /\ desired \in {None} \cup DesiredSizes
    /\ sel_pc = "call"
    /\ sel_result = NoResult
    /\ VecIdle
    /\ PathIdle
    /\ SvgIdle
    /\ ParseIdle
    /\ ConvIdle
    /\ CliIdle
    /\ InfoIdle
    /\ CallsIdle

NextSelect == SelectSize

SpecSelect == InitSelect /\ [][NextSelect]_vars

\* bitmaps whose pixels are opaque and all of different colours
DistinctImage(wd, ht) ==
    [size |-> <<wd, ht>>, pixels |-> [p \in Coords(wd, ht) |-> <<10 * p[1], 10 * p[2], 0, 255>>]]
DistinctImages == { DistinctImage(3, 1), DistinctImage(1, 3), DistinctImage(2, 2), DistinctImage(3, 2) }

InitVectorize ==
    /\ image \in Images \cup DistinctImages
    /\ alpha_threshold \in Thresholds
    /\ w = 0
    /\ h = 0
    /\ y = 0
    /\ x = 0
    /\ color = <<0, 0, 0, 255>>
    /\ x_start = 0
    /\ color_runs = <<>>
    /\ key_order = <<>>
    /\ vec_pc = "call"
    /\ vec_result = NoResult
    /\ SelIdle
    /\ PathIdle
    /\ SvgIdle
    /\ ParseIdle
    /\ ConvIdle
    /\ CliIdle
    /\ InfoIdle
    /\ CallsIdle

NextVectorize == VecEnter \/ VecFor \/ VecWhile \/ VecInner

SpecVectorize == InitVectorize /\ [][NextVectorize]_vars

\* the call at the default threshold, where the palette has solid pixels of both colours
\* and a transparent one
InitScan == InitVectorize /\ alpha_threshold = 16

\* the call keeps running until it returns: a step that can be taken is taken
SpecScan == InitScan /\ [][NextVectorize]_vars /\ WF_vars(NextVectorize)

\* coordinates of the runs given to runs_to_path_d: one and two decimal digits
PathCoords == {0, 3, 9, 10}
\* the runs with x1 <= x2
PathRuns == { r \in [y : PathCoords, x1 : PathCoords, x2 : PathCoords] : r.x1 <= r.x2 }
RunLists == UNION { [1..n -> PathRuns] : n \in 0..MaxRuns }

InitPath ==
    /\ runs \in RunLists
    /\ path_pc = "call"
    /\ path_d = <<>>
    /\ SelIdle
    /\ VecIdle
    /\ SvgIdle
    /\ ParseIdle
    /\ ConvIdle
    /\ CliIdle
    /\ InfoIdle
    /\ CallsIdle

NextPath == RunsToPathD

SpecPath == InitPath /\ [][NextPath]_vars

\* the 4 x 2 opaque red bitmap of vectorize's docstring
DocImage == [size |-> <<4, 2>>, pixels |-> [p \in Coords(4, 2) |-> <<255, 0, 0, 255>>]]

\* backgrounds: None, "", "transparent", "#ffffff", "red"
Backgrounds ==
    { NoneStr, <<>>, TransparentStr, <<"#", "f", "f", "f", "f", "f", "f">>, <<"r", "e", "d">> }

\* vectorize, then write_svg_vector on its result
InitVector ==
    /\ image \in Images \cup {DocImage}
    /\ alpha_threshold \in Thresholds
    /\ w = 0
    /\ h = 0
    /\ y = 0
    /\ x = 0
    /\ color = <<0, 0, 0, 255>>
    /\ x_start = 0
    /\ color_runs = <<>>
    /\ key_order = <<>>
    /\ vec_pc = "call"
    /\ vec_result = NoResult
    /\ background = NoneStr
    /\ svg_pc = "call"
    /\ output_file = NoFile
    /\ SelIdle
    /\ PathIdle
    /\ ParseIdle
    /\ ConvIdle
    /\ CliIdle
    /\ InfoIdle
    /\ CallsIdle

NextVector ==
    \/ VecEnter \/ VecFor \/ VecWhile \/ VecInner
    \/ \E bg \in Backgrounds : WriteSvgVector(bg)

SpecVector == InitVector /\ [][NextVector]_vars

\* characters of the size strings: digits, both cases of the separator, signs, a blank
\* and a letter
SizeChars == {"0", "1", "3", "x", "X", "-", "+", " ", "a"}
SizeStrings == UNION { [1..n -> SizeChars] : n \in 0..MaxStrLen }

InitParse ==
    /\ size_str \in SizeStrings
    /\ parse_pc = "call"
    /\ parse_result = NoResult
    /\ SelIdle
    /\ VecIdle
    /\ PathIdle
    /\ SvgIdle
    /\ ConvIdle
    /\ CliIdle
    /\ InfoIdle
    /\ CallsIdle

NextParse == ParseSizeArg

SpecParse == InitParse /\ [][NextParse]_vars

\* frame sizes of the icon files: square and not, small enough to vectorize
FrameSizes == { <<1, 1>>, <<2, 1>>, <<1, 2>>, <<2, 2>> }
\* the file at input_path: missing, not an icon, or an icon of 1..MaxFrames frames
InputFiles ==
    {MissingFile, InvalidFile}
        \cup { IcoFile(S) : S \in { T \in SUBSET FrameSizes : T # {} /\ Cardinality(T) <= MaxFrames } }
\* size: None (the default), "", "1", "2x1", "3", "0", "x"
SizeArgs == { NoneStr, <<>>, <<"1">>, <<"2", "x", "1">>, <<"3">>, <<"0">>, <<"x">> }
\* mode: "raster" (the default), "vector"
Modes == { "raster", "vector" }
\* background: None, "transparent" (the default), "#ffffff", and no colour
ConvBackgrounds == { NoneStr, TransparentStr, <<"#", "f", "f", "f", "f", "f", "f">>, <<"n", "o">> }

InitConvert ==
    /\ input_path \in InputFiles
    /\ size \in SizeArgs
    /\ mode \in Modes
    /\ locals = NoLocals
    /\ conv_pc = "load"
    /\ conv_result = NoResult
    /\ decoder_errors = <<>>
    /\ output_path = <<>>
    /\ background \in ConvBackgrounds
    /\ svg_pc = "idle"
    /\ output_file = NoFile
    /\ image = [size |-> <<0, 0>>, pixels |-> <<>>]
    /\ alpha_threshold = 16
    /\ w = 0
    /\ h = 0
    /\ y = 0
    /\ x = 0
    /\ color = <<0, 0, 0, 255>>
    /\ x_start = 0
    /\ color_runs = <<>>
    /\ key_order = <<>>
    /\ vec_pc = "idle"
    /\ vec_result = NoResult
    /\ SelIdle
    /\ PathIdle
    /\ ParseIdle
    /\ CliIdle
    /\ InfoIdle
    /\ CallsIdle

NextConvert ==
    \/ ConvLoad \/ ConvParse \/ ConvSelect \/ ConvOpen \/ ConvRetry
    \/ ConvWriteRaster \/ ConvVectorize
    \/ VecEnter \/ VecFor \/ VecWhile \/ VecInner
    \/ ConvWriteVector

SpecConvert == InitConvert /\ [][NextConvert]_vars

\* command-line words: the subcommands, option flags, file names and the empty word
Words == { ConvertWord, InfoWord, VersionFlag, <<"-", "h">>, <<"-", "-", "j", "s", "o", "n">>, <<"a", ".", "i", "c", "o">>, <<>> }
ArgLists == UNION { [1..n -> Words] : n \in 0..MaxArgs }

InitCli ==
    /\ main_argv \in ArgLists
    /\ argv = main_argv
    /\ args = NoResult
    /\ cli_pc = "call"
    /\ SelIdle
    /\ VecIdle
    /\ PathIdle
    /\ SvgIdle
    /\ ParseIdle
    /\ ConvIdle
    /\ InfoIdle
    /\ CallsIdle

NextCli == CliNormalize \/ CliParse

SpecCli == InitCli /\ [][NextCli]_vars

\* info <input> [--json] [--size S]
InitInfo ==
    /\ info_args \in [input : InputFiles, size : SizeArgs, json : BOOLEAN]
    /\ sizes = <<>>
    /\ info_pc = "load"
    /\ info_result = NoResult
    /\ stdout = <<>>
    /\ SelIdle
    /\ VecIdle
    /\ PathIdle
    /\ SvgIdle
    /\ ParseIdle
    /\ ConvIdle
    /\ CliIdle
    /\ CallsIdle

NextInfo == InfoLoad \/ InfoFilter \/ InfoPrint

SpecInfo == InitInfo /\ [][NextInfo]_vars

\* the two calls
Calls == {1, 2}
\* their bitmaps: one or two rows, up to three columns, of two solid colours and a
\* transparent one
CallPalette == { <<255, 0, 0, 255>>, <<0, 255, 0, 255>>, <<0, 255, 0, 15>> }
CallImages ==
    UNION { { [size |-> sz, pixels |-> p] : p \in [Coords(sz[1], sz[2]) -> CallPalette] } :
            sz \in { <<2, 1>>, <<1, 2>>, <<3, 1>> } }

InitCalls ==
    /\ bitmaps \in [Calls -> CallImages]
    /\ bitmaps[1] # bitmaps[2]
    /\ calls = [c \in Calls |-> NewFrame(16)]
    /\ SelIdle
    /\ VecIdle
    /\ PathIdle
    /\ SvgIdle
    /\ ParseIdle
    /\ ConvIdle
    /\ CliIdle
    /\ InfoIdle

NextCalls == \E c \in Calls : CallStep(c)

SpecCalls == InitCalls /\ [][NextCalls]_vars

(***************************************************************************)
(* Properties of select_size (SpecSelect)                                  *)
(***************************************************************************)
\* the sizes of a list, as a set
Elements(seq) == { seq[i] : i \in 1..Len(seq) }
Area(s) == s[1] * s[2]
Squareness(s) == abs(s[1] - s[2])
\* the available sizes at least as large as d in both dimensions
Candidates(seq, d) == { s \in Elements(seq) : s[1] >= d[1] /\ s[2] >= d[2] }
SelDone == sel_pc = "done"
\* the call returned the size s
Selected(s) == sel_result = [raised |-> FALSE, value |-> s]

\* C1: a desired size that is among the available sizes is returned itself
SelectExact ==
    (SelDone /\ available # <<>> /\ desired # None /\ desired \in Elements(available))
        => Selected(desired)

\* C1 witness: the desired size was returned although a squarer and larger size is available
SelectExactWitness ==
    /\ SelDone /\ desired # None /\ desired \in Elements(available)
    /\ Selected(desired)
    /\ \E s \in Elements(available) :
           Squareness(s) < Squareness(desired) /\ Area(s) > Area(desired)

\* C2: with desired not available and some size at least as large in both dimensions,
\* the result is the candidate whose (|w - h|, w * h, w, h) is strictly below every other's
SelectNearestLarger ==
    (SelDone /\ desired # None /\ desired \notin Elements(available)
             /\ Candidates(available, desired) # {})
        => \E r \in Candidates(available, desired) :
               /\ Selected(r)
               /\ \A c \in Candidates(available, desired) \ {r} :
                      TupleLess(<<Squareness(r), Area(r), r[1], r[2]>>,
                                <<Squareness(c), Area(c), c[1], c[2]>>)

\* C2 witness: two candidates equally square and of equal area, the narrower one returned
SelectNearestLargerWitness ==
    /\ SelDone /\ desired # None /\ desired \notin Elements(available)
    /\ \E r, c \in Candidates(available, desired) :
           /\ Selected(r)
           /\ Squareness(c) = Squareness(r) /\ Area(c) = Area(r) /\ r[1] < c[1]

\* C3 as stated: the result has the smallest area of all candidates
SelectSmallestArea ==
    (SelDone /\ desired # None /\ desired \notin Elements(available)
             /\ Candidates(available, desired) # {})
        => \E r \in Candidates(available, desired) :
               /\ Selected(r)
               /\ \A c \in Candidates(available, desired) : Area(r) <= Area(c)

\* C3 amended: the result is a most-square candidate, and has the smallest area among
\* the most-square candidates
SelectSquarestThenSmallest ==
    (SelDone /\ desired # None /\ desired \notin Elements(available)
             /\ Candidates(available, desired) # {})
        => \E r \in Candidates(available, desired) :
               /\ Selected(r)
               /\ \A c \in Candidates(available, desired) :
                      \/ Squareness(r) < Squareness(c)
                      \/ Squareness(r) = Squareness(c) /\ Area(r) <= Area(c)

\* C3 witness: a squarer candidate was returned although a candidate of smaller area exists
SelectSquarestThenSmallestWitness ==
    /\ SelDone /\ desired # None /\ desired \notin Elements(available)
    /\ \E r, c \in Candidates(available, desired) :
           Selected(r) /\ Squareness(r) < Squareness(c) /\ Area(c) < Area(r)

\* C4: without a desired size the result is the available size of greatest (w * h, w, h)
SelectLargest ==
    (SelDone /\ available # <<>> /\ desired = None)
        => \E r \in Elements(available) :
               /\ Selected(r)
               /\ \A s \in Elements(available) :
                      ~TupleLess(<<Area(r), r[1], r[2]>>, <<Area(s), s[1], s[2]>>)

\* C4 witness: the size of greatest area was returned, a wider size of smaller area is available
SelectLargestWitness ==
    /\ SelDone /\ desired = None
    /\ \E r, s \in Elements(available) :
           Selected(r) /\ Area(s) < Area(r) /\ s[1] > r[1]

\* C5: when no available size is at least as large as desired in both dimensions, the
\* result is the one of select_size(available, None)
SelectFallback ==
    (SelDone /\ available # <<>> /\ desired # None /\ Candidates(available, desired) = {})
        => /\ sel_result.raised = FALSE
           /\ sel_result = select_size(available, None)

\* C5 witness: the fallback returned the largest size, which is not the first of the list
SelectFallbackWitness ==
    /\ SelDone /\ available # <<>> /\ desired # None /\ Candidates(available, desired) = {}
    /\ sel_result.raised = FALSE
    /\ sel_result.value # available[1]
    /\ \A s \in Elements(available) : Area(s) <= Area(sel_result.value)

\* C6: on an empty list the call raises ValueError('No sizes available in ICO') and
\* returns no size, whatever desired is
SelectEmptyFails ==
    (SelDone /\ available = <<>>)
        => sel_result = [raised |-> TRUE, error |-> "No sizes available in ICO"]

\* C6 witness: the call on the empty list with a desired size has raised
SelectEmptyFailsWitness ==
    SelDone /\ available = <<>> /\ desired # None /\ sel_result.raised

\* C26: on a non-empty list select_size returns, without error, one of the list's elements,
\* whatever was requested; a requested size that is not available is never the result
Membership ==
    (SelDone /\ available # <<>>) =>
        /\ ~sel_result.raised
        /\ \E i \in 1..Len(available) : sel_result.value = available[i]
        /\ (desired # None /\ \A i \in 1..Len(available) : available[i] # desired)
               => sel_result.value # desired

\* C26 witness: a size that is not available was requested and an available one returned
MembershipWitness ==
    /\ SelDone /\ Len(available) = 2
    /\ desired # None /\ desired \notin Elements(available)
    /\ ~sel_result.raised
    /\ sel_result.value \in Elements(available)

(***************************************************************************)
(* Properties of vectorize (SpecVectorize)                                 *)
(***************************************************************************)
VecDone == vec_pc = "done"
\* the bitmap's dimensions and coordinates, as given to the call
Width == image.size[1]
Height == image.size[2]
Pixels == Coords(Width, Height)
\* the pixels of alpha >= threshold
Solid(p) == image.pixels[p][4] >= alpha_threshold
RGB(p) == <<image.pixels[p][1], image.pixels[p][2], image.pixels[p][3]>>
\* the returned table, and a reference <<key, index>> to each of its runs
Table == vec_result.color_runs
RunRefs == UNION { { <<k, i>> : i \in 1..Len(Table[k]) } : k \in DOMAIN Table }
RunAt(ref) == Table[ref[1]][ref[2]]
\* the pixels a run covers
Covered(r) == { <<cx, r.y>> : cx \in (r.x1)..(r.x2) }

\* C7: the runs of the returned table cover exactly the pixels of alpha >= threshold,
\* and no pixel is covered by two runs
ColorPartition ==
    VecDone =>
        /\ UNION { Covered(RunAt(ref)) : ref \in RunRefs } = { p \in Pixels : Solid(p) }
        /\ \A a, b \in RunRefs : a # b => Covered(RunAt(a)) \cap Covered(RunAt(b)) = {}

\* C7 witness: a returned table of two colours whose bitmap has solid and transparent
\* pixels on one row
ColorPartitionWitness ==
    /\ VecDone
    /\ Cardinality(DOMAIN Table) = 2
    /\ \E p, q \in Pixels : p[2] = q[2] /\ Solid(p) /\ ~Solid(q)

\* C8: every run lies inside the bitmap with x1 <= x2; two runs of one colour on one row
\* are at least one column apart; no run can be extended by a same-colour solid pixel
RunsWellFormedMaximal ==
    VecDone =>
        /\ \A ref \in RunRefs :
               LET r == RunAt(ref)
               IN /\ 0 <= r.x1 /\ r.x1 <= r.x2 /\ r.x2 <= Width - 1
                  /\ 0 <= r.y /\ r.y <= Height - 1
                  /\ \A cx \in {r.x1 - 1, r.x2 + 1} :
                         (0 <= cx /\ cx <= Width - 1 /\ Solid(<<cx, r.y>>))
                             => <<RGB(<<cx, r.y>>)[1], RGB(<<cx, r.y>>)[2],
                                  RGB(<<cx, r.y>>)[3], 255>> # ref[1]
        /\ \A a, b \in RunRefs :
               (a # b /\ a[1] = b[1] /\ RunAt(a).y = RunAt(b).y)
                   => \/ RunAt(a).x2 + 2 <= RunAt(b).x1
                      \/ RunAt(b).x2 + 2 <= RunAt(a).x1

\* C8 witness: two runs of one colour on one row, and a run longer than one pixel
RunsWellFormedMaximalWitness ==
    /\ VecDone
    /\ \E a, b \in RunRefs : a # b /\ a[1] = b[1] /\ RunAt(a).y = RunAt(b).y
    /\ \E c \in RunRefs : RunAt(c).x1 < RunAt(c).x2

\* C9: a W x H bitmap (W, H >= 1) of one RGB colour, all of alpha >= threshold, yields one
\* key (r, g, b, 255) with the runs Run(i, 0, W - 1), i = 0..H-1, in that order, and W and H
RowCoverage ==
    (/\ VecDone /\ Width >= 1 /\ Height >= 1
     /\ \A p \in Pixels : Solid(p) /\ RGB(p) = RGB(<<0, 0>>))
        => /\ DOMAIN Table = { <<RGB(<<0, 0>>)[1], RGB(<<0, 0>>)[2], RGB(<<0, 0>>)[3], 255>> }
           /\ \A k \in DOMAIN Table :
                  Table[k] = [i \in 1..Height |-> [y |-> i - 1, x1 |-> 0, x2 |-> Width - 1]]
           /\ vec_result.w = Width
           /\ vec_result.h = Height

\* C9 witness: a returned 2 x 2 bitmap of one colour, all solid, with differing alphas
RowCoverageWitness ==
    /\ VecDone /\ Width = 2 /\ Height = 2
    /\ \A p \in Pixels : Solid(p) /\ RGB(p) = RGB(<<0, 0>>)
    /\ \E p, q \in Pixels : image.pixels[p][4] # image.pixels[q][4]
    /\ Cardinality(RunRefs) = 2

\* C10: a row all of alpha < threshold has no run in the returned table, and a bitmap all
\* of alpha < threshold yields a table without keys
Transparency ==
    VecDone =>
        /\ \A row \in 0..(Height - 1) :
               (\A cx \in 0..(Width - 1) : ~Solid(<<cx, row>>))
                   => \A ref \in RunRefs : RunAt(ref).y # row
        /\ (\A p \in Pixels : ~Solid(p)) => DOMAIN Table = {}

\* C10 witness: a returned bitmap of two rows, the first all transparent and with no run,
\* the second with a run
TransparencyWitness ==
    /\ VecDone /\ Width >= 2 /\ Height = 2
    /\ \A cx \in 0..(Width - 1) : ~Solid(<<cx, 0>>)
    /\ \A ref \in RunRefs : RunAt(ref).y = 1
    /\ RunRefs # {}

\* C10 witness of the second part: a returned bitmap of two rows, all transparent
TransparencyAllWitness ==
    /\ VecDone /\ Width >= 2 /\ Height = 2
    /\ \A p \in Pixels : ~Solid(p)
    /\ DOMAIN Table = {}

\* the pixels covered by some run of the returned table
AllCovered == UNION { Covered(RunAt(ref)) : ref \in RunRefs }
Alpha(p) == image.pixels[p][4]

\* C11: a pixel is left out of every run exactly when its alpha is strictly below the
\* threshold; a pixel of alpha equal to the threshold is in a run, and with threshold 0
\* every pixel is
ThresholdBoundary ==
    VecDone =>
        /\ \A p \in Pixels :
               /\ Alpha(p) < alpha_threshold => p \notin AllCovered
               /\ Alpha(p) = alpha_threshold => p \in AllCovered
               /\ Alpha(p) > alpha_threshold => p \in AllCovered
        /\ alpha_threshold = 0 => AllCovered = Pixels

\* C11 witness: at threshold 16 a pixel of alpha 16 is in a run and one of alpha 15 is not
ThresholdBoundaryWitness ==
    /\ VecDone /\ alpha_threshold = 16
    /\ \E p, q \in Pixels :
           /\ Alpha(p) = 16 /\ p \in AllCovered
           /\ Alpha(q) = 15 /\ q \notin AllCovered

\* C12: every key is (r, g, b, 255); every pixel a run under (r, g, b, 255) covers has RGB
\* (r, g, b); horizontally adjacent solid pixels of equal RGB are in the same run, whatever
\* their alphas
ColorNormalization ==
    VecDone =>
        /\ \A k \in DOMAIN Table : Len(k) = 4 /\ k[4] = 255
        /\ \A ref \in RunRefs :
               \A p \in Covered(RunAt(ref)) : RGB(p) = <<ref[1][1], ref[1][2], ref[1][3]>>
        /\ \A p \in Pixels :
               LET q == <<p[1] + 1, p[2]>>
               IN (q \in Pixels /\ Solid(p) /\ Solid(q) /\ RGB(p) = RGB(q))
                      => \E ref \in RunRefs : {p, q} \subseteq Covered(RunAt(ref))

\* C12 witness: one run covers two adjacent pixels of equal RGB and different alpha
ColorNormalizationWitness ==
    /\ VecDone
    /\ \E ref \in RunRefs :
           \E p, q \in Covered(RunAt(ref)) :
               q = <<p[1] + 1, p[2]>> /\ Alpha(p) # Alpha(q) /\ ref[1][4] = 255

\* C13: every colour's run list is strictly increasing by (row, start column)
ScanOrder ==
    VecDone =>
        \A k \in DOMAIN Table :
            \A i, j \in 1..Len(Table[k]) :
                i < j => TupleLess(<<Table[k][i].y, Table[k][i].x1>>,
                                   <<Table[k][j].y, Table[k][j].x1>>)

\* C13 witness: a colour's list holds two runs of one row, the left one first
ScanOrderWitness ==
    /\ VecDone
    /\ \E k \in DOMAIN Table :
           /\ Len(Table[k]) >= 2
           /\ Table[k][1].y = Table[k][2].y
           /\ Table[k][1].x1 < Table[k][2].x1

\* C13 witness of the rows: a colour's list holds runs of two rows, the upper one first
ScanOrderRowsWitness ==
    /\ VecDone
    /\ \E k \in DOMAIN Table :
           /\ Len(Table[k]) >= 2
           /\ Table[k][1].y < Table[k][2].y

\* The per-pixel scanner: its state is the table built so far and the open run, if any
\* (its colour and the column it starts at).
NoOpenRun(t) == [table |-> t, open |-> FALSE, color |-> <<0, 0, 0, 255>>, start |-> 0]
OpenRun(t, c, s) == [table |-> t, open |-> TRUE, color |-> c, start |-> s]
\* the table with the run appended to its colour's list; a new colour gets a new list
WithRun(t, c, r) ==
    IF c \in DOMAIN t
    THEN [k \in DOMAIN t |-> IF k = c THEN t[k] \o <<r>> ELSE t[k]]
    ELSE [k \in DOMAIN t \cup {c} |-> IF k = c THEN <<r>> ELSE t[k]]
\* the open run, if any, closed at the column last
Closed(s, row, last) ==
    IF s.open
    THEN NoOpenRun(WithRun(s.table, s.color, [y |-> row, x1 |-> s.start, x2 |-> last]))
    ELSE s
\* the scanner's step on the pixel at column col of the row
OnPixel(s, col, row) ==
    LET p == <<col, row>>
        c == <<RGB(p)[1], RGB(p)[2], RGB(p)[3], 255>>
    IN IF ~Solid(p) THEN Closed(s, row, col - 1)
       ELSE IF s.open /\ s.color = c THEN s
       ELSE OpenRun(Closed(s, row, col - 1).table, c, col)
\* the row scanned from column col on, the open run closed at the row's end
RECURSIVE ScanRow(_, _, _)
ScanRow(s, col, row) ==
    IF col >= Width THEN Closed(s, row, Width - 1)
    ELSE ScanRow(OnPixel(s, col, row), col + 1, row)
\* the rows scanned from row on, each starting with no open run
RECURSIVE ScanRows(_, _)
ScanRows(t, row) ==
    IF row >= Height THEN t
    ELSE ScanRows(ScanRow(NoOpenRun(t), 0, row).table, row + 1)

\* C23: the table vectorize returns is the table of the per-pixel scanner: the same
\* keys, and for each key the same runs in the same order
ScannerRefinement ==
    VecDone =>
        /\ DOMAIN Table = DOMAIN ScanRows(<<>>, 0)
        /\ \A k \in DOMAIN Table : Table[k] = ScanRows(<<>>, 0)[k]

\* C23 witness: a row where the scanner closed a run on a transparent pixel and another
\* on a colour change
ScannerRefinementWitness ==
    /\ VecDone
    /\ Width >= 4 /\ Height = 1
    /\ Solid(<<0, 0>>) /\ ~Solid(<<1, 0>>) /\ Solid(<<2, 0>>) /\ Solid(<<3, 0>>)
    /\ RGB(<<2, 0>>) # RGB(<<3, 0>>)
    /\ Cardinality(RunRefs) >= 3
    /\ DOMAIN Table = DOMAIN ScanRows(<<>>, 0)

\* the pixels vectorize does not skip, and the runs of a row
SolidPixels == { p \in Pixels : Solid(p) }
RunsOfRow(row) == { ref \in RunRefs : RunAt(ref).y = row }
AllDistinct == \A p, q \in Pixels : p # q => RGB(p) # RGB(q)

\* C24: there are never more runs than pixels of alpha >= threshold; when every pixel is
\* one and no two pixels have the same colour, every row has W runs, each of one pixel,
\* W * H runs in all
WorstCase ==
    VecDone =>
        /\ Cardinality(RunRefs) <= Cardinality(SolidPixels)
        /\ (SolidPixels = Pixels /\ AllDistinct)
               => /\ \A row \in 0..(Height - 1) :
                        /\ Cardinality(RunsOfRow(row)) = Width
                        /\ \A ref \in RunsOfRow(row) : RunAt(ref).x1 = RunAt(ref).x2
                  /\ Cardinality(RunRefs) = Width * Height

\* C24 witness: a 3 x 2 bitmap of six colours gave six runs of one pixel
WorstCaseWitness ==
    /\ VecDone
    /\ Width = 3 /\ Height = 2
    /\ SolidPixels = Pixels /\ AllDistinct
    /\ Cardinality(RunRefs) = 6

\* a pass of the outer or of the inner loop that stays within the row
LoopPass == vec_pc \in {"while", "inner"} /\ vec_pc' \in {"while", "inner"}
\* leaving the inner loop, on a break or at the row's end
InnerExit == vec_pc = "inner" /\ vec_pc' = "while"
\* the step from one row to the next
NextRow == vec_pc = "while" /\ vec_pc' = "for"

\* C27: the call returns; the column grows by one on every pass of the outer and of the
\* inner loop and stays within 0..W; the rows are taken once each, from 0 up to H - 1
ScanTermination ==
    /\ <>VecDone
    /\ [](x \in 0..Width /\ y \in 0..Height)
    /\ [](VecDone => y = Height)
    /\ [][/\ (LoopPass /\ ~InnerExit) => (x' = x + 1 /\ x < Width /\ y' = y)
          /\ InnerExit => (x' = x /\ y' = y)
          /\ NextRow => (x = Width /\ y' = y + 1)
          /\ (y' = y \/ NextRow)]_vars

\* C27 witness: a bitmap of two rows and two columns was scanned to the end
ScanTerminationWitness ==
    /\ VecDone
    /\ Width = 2 /\ Height = 2
    /\ y = 2 /\ x = 2

\* the locals of the one call of SpecVectorize, as a frame
Frame ==
    [alpha_threshold |-> alpha_threshold, w |-> w, h |-> h, y |-> y, x |-> x,
     color |-> color, x_start |-> x_start, color_runs |-> color_runs,
     key_order |-> key_order, pc |-> vec_pc, result |-> vec_result]

\* every step of the call is the step VecStep takes on its frame
StepAgrees == [][Frame' = VecStep(Frame, image)]_vars

(***************************************************************************)
(* Properties of runs_to_path_d (SpecPath)                                 *)
(***************************************************************************)
PathDone == path_pc = "done"
\* the closed rectangle subpath from (x1, y) to (x2 + 1, y + 1)
Rectangle(x1, row, x2) ==
    <<"M">> \o FormatInt(x1) \o <<",">> \o FormatInt(row)
        \o <<"H">> \o FormatInt(x2 + 1) \o <<"V">> \o FormatInt(row + 1)
        \o <<"H">> \o FormatInt(x1) \o <<"Z">>
\* how often the character c occurs in s
Count(s, c) == Cardinality({ i \in 1..Len(s) : s[i] = c })

\* C14: the returned string, cut at its spaces, is the list of the runs' rectangle
\* subpaths in input order (so no leading, trailing or doubled space), and the empty list
\* gives the empty string
PathSubpaths ==
    PathDone =>
        /\ runs = <<>> => path_d = <<>>
        /\ runs # <<>> =>
               /\ Split(path_d, " ")
                      = [i \in 1..Len(runs) |-> Rectangle(runs[i].x1, runs[i].y, runs[i].x2)]
               /\ Count(path_d, " ") = Len(runs) - 1
               /\ Count(path_d, "Z") = Len(runs)

\* C14 witness: two runs were given, one reaching column 9, and the string holds two
\* subpaths with the two-digit end column 10
PathSubpathsWitness ==
    /\ PathDone /\ Len(runs) = 2
    /\ runs[1].x2 = 9 /\ runs[1] # runs[2]
    /\ Count(path_d, "Z") = 2
    /\ \E i \in 1..(Len(path_d) - 2) :
           path_d[i] = "H" /\ path_d[i + 1] = "1" /\ path_d[i + 2] = "0"

(***************************************************************************)
(* Properties of vectorize followed by write_svg_vector (SpecVector)       *)
(***************************************************************************)
SvgDone == svg_pc = "done"
PathElements == SelectSeq(output_file.elements, LAMBDA el : el.tag = "path")
RectElements == SelectSeq(output_file.elements, LAMBDA el : el.tag = "rect")
\* the bitmap is of one RGB colour and all its pixels are solid
Uniform == \A p \in Pixels : Solid(p) /\ RGB(p) = RGB(<<0, 0>>)
\* 'M0,0H4V1H0Z M0,1H4V2H0Z'
DocPath ==
    <<"M", "0", ",", "0", "H", "4", "V", "1", "H", "0", "Z", " ",
      "M", "0", ",", "1", "H", "4", "V", "2", "H", "0", "Z">>

\* C15: every path holds as many subpaths as its colour has runs; for a W x H bitmap of one
\* colour, all solid, the one path is the H rectangles from (0, i) to (W, i + 1), and for the
\* 4 x 2 red bitmap at threshold 128 it is 'M0,0H4V1H0Z M0,1H4V2H0Z'
NoRowMerging ==
    SvgDone =>
        /\ \A i \in 1..Len(PathElements) :
               \E k \in DOMAIN Table :
                   /\ PathElements[i].fill = Fill(k)
                   /\ Count(PathElements[i].d, "M") = Len(Table[k])
                   /\ Count(PathElements[i].d, "Z") = Len(Table[k])
        /\ (Width >= 1 /\ Height >= 1 /\ Uniform) =>
               /\ Len(PathElements) = 1
               /\ Split(PathElements[1].d, " ")
                      = [i \in 1..Height |-> Rectangle(0, i - 1, Width - 1)]
        /\ (image = DocImage /\ alpha_threshold = 128) => PathElements[1].d = DocPath

\* C15 witness: the 4 x 2 red bitmap at threshold 128 was written as two rectangles
NoRowMergingWitness ==
    /\ SvgDone /\ image = DocImage /\ alpha_threshold = 128
    /\ Table[<<255, 0, 0, 255>>] = <<[y |-> 0, x1 |-> 0, x2 |-> 3], [y |-> 1, x1 |-> 0, x2 |-> 3]>>
    /\ Count(PathElements[1].d, "Z") = 2

\* the value of a two-character lowercase hex string
HexValue(c) == CHOOSE v \in 0..15 : <<"0", "1", "2", "3", "4", "5", "6", "7", "8", "9",
                                      "a", "b", "c", "d", "e", "f">>[v + 1] = c
ByteOf(s, at) == 16 * HexValue(s[at]) + HexValue(s[at + 1])
\* s is '#rrggbb' for the key k
IsHexOf(s, k) ==
    /\ Len(s) = 7 /\ s[1] = "#"
    /\ \A i \in 2..7 : s[i] \in {"0", "1", "2", "3", "4", "5", "6", "7", "8", "9",
                                 "a", "b", "c", "d", "e", "f"}
    /\ ByteOf(s, 2) = k[1] /\ ByteOf(s, 4) = k[2] /\ ByteOf(s, 6) = k[3]
\* a background is given and is not "transparent"
BackgroundGiven == background # NoneStr /\ background # <<>> /\ background # TransparentStr

\* C16: a rect is written, and written first, exactly when a background is given and is
\* not 'transparent'; after it comes one path per colour key, each key once, its fill the
\* key's '#rrggbb' and its data runs_to_path_d of the key's runs
ElementOrder ==
    SvgDone =>
        /\ Len(RectElements) = (IF BackgroundGiven THEN 1 ELSE 0)
        /\ BackgroundGiven =>
               /\ output_file.elements[1].tag = "rect"
               /\ output_file.elements[1].fill = background
        /\ \A i \in 1..Len(output_file.elements) :
               output_file.elements[i].tag = "rect" => i = 1
        /\ Len(RectElements) + Len(PathElements) = Len(output_file.elements)
        /\ Len(PathElements) = Cardinality(DOMAIN Table)
        /\ \A k \in DOMAIN Table :
               /\ Cardinality({ i \in 1..Len(PathElements) : IsHexOf(PathElements[i].fill, k) }) = 1
               /\ \A i \in 1..Len(PathElements) :
                      IsHexOf(PathElements[i].fill, k)
                          => /\ PathElements[i].d = runs_to_path_d(Table[k])
                             /\ PathElements[i].stroke = "none"

\* C16 witness: with background 'red' the file holds the rect, then a path for each of
\* two colours
ElementOrderWitness ==
    /\ SvgDone /\ background = <<"r", "e", "d">>
    /\ Cardinality(DOMAIN Table) = 2
    /\ Len(output_file.elements) = 3
    /\ output_file.elements[1].tag = "rect"
    /\ output_file.elements[2].fill # output_file.elements[3].fill

\* C16 witness of the other case: with background 'transparent' the file holds paths only
ElementOrderTransparentWitness ==
    /\ SvgDone /\ background = TransparentStr
    /\ Len(output_file.elements) = 2
    /\ RectElements = <<>>

(***************************************************************************)
(* Properties of parse_size_arg (SpecParse)                                *)
(***************************************************************************)
ParseDone == parse_pc = "done"
\* the positions of the separator, x or X
Separators(s) == { i \in 1..Len(s) : s[i] \in {"x", "X"} }
\* s is one or more decimal digits
Numeral(s) == s # <<>> /\ \A i \in 1..Len(s) : s[i] \in {"0", "1", "2", "3", "4", "5", "6", "7", "8", "9"}
\* s is an integer as int() reads one: blanks, an optional sign, a numeral, blanks
IntegerAt(s, a, b) ==
    /\ 1 <= a /\ a <= b /\ b <= Len(s)
    /\ Numeral(SubSeq(s, a, b))
    /\ \A i \in (b + 1)..Len(s) : s[i] = " "
    /\ \/ \A i \in 1..(a - 1) : s[i] = " "
       \/ a >= 2 /\ s[a - 1] \in {"+", "-"} /\ \A i \in 1..(a - 2) : s[i] = " "
IsInteger(s) == \E a, b \in 1..Len(s) : IntegerAt(s, a, b)
IntegerValue(s) ==
    LET ab == CHOOSE ab \in (1..Len(s)) \X (1..Len(s)) : IntegerAt(s, ab[1], ab[2])
        n == DecimalValue(SubSeq(s, ab[1], ab[2]))
    IN IF ab[1] >= 2 /\ s[ab[1] - 1] = "-" THEN -n ELSE n
IsPositive(s) == IsInteger(s) /\ IntegerValue(s) > 0
Left(s) == SubSeq(s, 1, (CHOOSE i \in Separators(s) : TRUE) - 1)
Right(s) == SubSeq(s, (CHOOSE i \in Separators(s) : TRUE) + 1, Len(s))
\* the call raised ValueError
ParseRaised == parse_result.raised

\* C20: 'N' gives (N, N) and 'WxH', with x or X, gives (W, H) when every dimension is a
\* positive integer; every other string (a zero or negative dimension, more than one
\* separator, a part that is no integer or is missing, the empty string) raises ValueError
ParseSizeContract ==
    ParseDone =>
        /\ (Separators(size_str) = {} /\ IsPositive(size_str))
               => parse_result = [raised |-> FALSE,
                                  value |-> <<IntegerValue(size_str), IntegerValue(size_str)>>]
        /\ (Cardinality(Separators(size_str)) = 1
                /\ IsPositive(Left(size_str)) /\ IsPositive(Right(size_str)))
               => parse_result = [raised |-> FALSE,
                                  value |-> <<IntegerValue(Left(size_str)),
                                              IntegerValue(Right(size_str))>>]
        /\ (Separators(size_str) = {} /\ ~IsPositive(size_str)) => ParseRaised
        /\ (Cardinality(Separators(size_str)) = 1
                /\ ~(IsPositive(Left(size_str)) /\ IsPositive(Right(size_str))))
               => ParseRaised
        /\ Cardinality(Separators(size_str)) > 1 => ParseRaised
        /\ size_str = <<>> => ParseRaised

\* C20 witness: '1X13' was parsed to (1, 13)
ParseSizeContractWitness ==
    /\ ParseDone /\ size_str = <<"1", "X", "1", "3">>
    /\ parse_result = [raised |-> FALSE, value |-> <<1, 13>>]

\* C20 witness of a refusal: '3x0' raised ValueError
ParseSizeRefusedWitness ==
    /\ ParseDone /\ size_str = <<"3", "x", "0">>
    /\ parse_result.raised

(***************************************************************************)
(* Properties of convert_ico_to_svg (SpecConvert)                          *)
(***************************************************************************)
ConvDone == conv_pc = "done"
\* the steps before the write: enumeration, size parsing, selection, frame opening
BeforeWrite == conv_pc \in {"load", "parse", "select", "open", "retry"}
ConvFailed == ConvDone /\ conv_result.raised
Untouched == output_path = <<>>

\* C17 as claimed: once Pillow has raised an error the conversion is over and that error
\* is what convert_ico_to_svg raised; nothing is decoded after it
DecoderErrorsPropagate ==
    decoder_errors # <<>> =>
        /\ ConvDone
        /\ conv_result = decoder_errors[1]
        /\ Len(decoder_errors) = 1

\* C18: the output is written only once enumeration, parsing, selection and opening have
\* succeeded, and a conversion that failed has left the output path untouched
NoPartialOutput ==
    /\ BeforeWrite => Untouched
    /\ ConvFailed => Untouched
    /\ ~Untouched => /\ locals.sizes # <<>>
                     /\ locals.selected # None
                     /\ locals.img.size \in input_path.frames
                     /\ Len(output_path) = 1

\* C18 witness: the frame could not be opened, and nothing was written
NoPartialOutputWitness ==
    /\ ConvFailed /\ Untouched
    /\ locals.selected # None
    /\ Len(decoder_errors) = 2

\* C18 witness of the other case: every step succeeded and the output was written
OutputWrittenWitness ==
    /\ ConvDone /\ ~conv_result.raised
    /\ Len(output_path) = 1 /\ output_path[1].written

(***************************************************************************)
(* Properties of cli.main (SpecCli)                                        *)
(***************************************************************************)
CliDone == cli_pc = "done"
Subcommand(word) == word = ConvertWord \/ word = InfoWord
OptionFlag(word) == word # <<>> /\ Head(word) = "-"
\* what main makes of the list when it is handed to the parser as it is
AsGiven(a) == ParseArgs(a)

\* C19 as claimed: every non-empty list not starting with convert or info is treated as
\* the list with convert put in front
LegacyAlwaysPrepended ==
    (CliDone /\ main_argv # <<>> /\ ~Subcommand(main_argv[1]))
        => /\ argv = <<ConvertWord>> \o main_argv
           /\ args = AsGiven(<<ConvertWord>> \o main_argv)

\* C19 amended: convert is put in front exactly when the list is non-empty and its first
\* element is neither a subcommand nor an option flag; otherwise the list is passed on
\* unchanged
LegacyInvocation ==
    CliDone =>
        /\ (main_argv # <<>> /\ ~Subcommand(main_argv[1]) /\ ~OptionFlag(main_argv[1]))
               => /\ argv = <<ConvertWord>> \o main_argv
                  /\ args = [cmd |-> "convert", rest |-> main_argv]
        /\ (main_argv # <<>> /\ Subcommand(main_argv[1]))
               => /\ argv = main_argv
                  /\ args.cmd = (IF main_argv[1] = ConvertWord THEN "convert" ELSE "info")
                  /\ args.rest = Tail(main_argv)
        /\ (main_argv = <<>> \/ (main_argv # <<>> /\ OptionFlag(main_argv[1])))
               => /\ argv = main_argv
                  /\ args.cmd \in {"error", "help", "version"}

\* C19 witness: the legacy call `a.ico --json` became `convert a.ico --json`
LegacyInvocationWitness ==
    /\ CliDone
    /\ Len(main_argv) = 2 /\ ~Subcommand(main_argv[1]) /\ ~OptionFlag(main_argv[1])
    /\ main_argv[1] # <<>>
    /\ argv = <<ConvertWord>> \o main_argv
    /\ args.cmd = "convert"

\* C19 witness of the flag case: `--version` alone was passed on unchanged
LegacyFlagWitness ==
    /\ CliDone
    /\ main_argv = <<VersionFlag>>
    /\ argv = main_argv
    /\ args.cmd = "version"

\* the frames were enumerated: the conversion got as far as the size argument
Enumerated == locals.sizes # <<>>
\* select_size has been called
SelectCalled == conv_pc \in {"open", "retry", "write", "vectorize"} \/ locals.selected # None

\* C21 as claimed: a size string parse_size_arg rejects, the empty one included, makes
\* convert_ico_to_svg raise that ValueError, so select_size is called only with a parsed
\* positive pair, or with None when no size was given
InvalidSizeRejected ==
    /\ (Enumerated /\ conv_pc # "parse" /\ size # NoneStr /\ parse_size_arg(size).raised)
           => (ConvDone /\ conv_result = parse_size_arg(size) /\ ~SelectCalled)
    /\ SelectCalled
           => \/ size = NoneStr /\ locals.desired = None
              \/ /\ size # NoneStr
                 /\ ~parse_size_arg(size).raised
                 /\ locals.desired = parse_size_arg(size).value
                 /\ locals.desired[1] > 0 /\ locals.desired[2] > 0

\* the same for every size string but the empty one
InvalidSizeRejectedNonEmpty == size # <<>> => InvalidSizeRejected

(***************************************************************************)
(* Properties of the info subcommand (SpecInfo)                            *)
(***************************************************************************)
InfoDone == info_pc = "done"
\* load_ico_frames returned the sizes of the file: no error of Pillow ended the call
Loaded ==
    /\ info_args.input.kind = "ico"
    /\ ~(info_result.raised
          /\ info_result.error \in {"FileNotFoundError", "UnidentifiedImageError", "OSError"})
\* a size was given with --size
SizeGiven == info_args.size # NoneStr
\* the available sizes, in some order and in ascending order of (area, width, height)
Available == CHOOSE q \in Orderings(info_args.input.frames) : TRUE
Ascending ==
    CHOOSE q \in Orderings(info_args.input.frames) :
        \A i, j \in 1..Len(q) :
            i < j => \/ Area(q[i]) < Area(q[j])
                     \/ Area(q[i]) = Area(q[j]) /\ q[i][1] < q[j][1]
                     \/ Area(q[i]) = Area(q[j]) /\ q[i][1] = q[j][1] /\ q[i][2] < q[j][2]
\* the size convert would use for the given --size
Chosen == select_size(Available, parse_size_arg(info_args.size).value).value
\* one entry of the report, and the report that lists the sizes of q in that order
JsonEntry(s) == <<"{", "\"", "w", "i", "d", "t", "h", "\"", ":", " ">> \o FormatInt(s[1]) \o <<",", " ", "\"", "h", "e", "i", "g", "h", "t", "\"", ":", " ">> \o FormatInt(s[2]) \o <<"}">>
TextEntry(s) == <<" ", "-", " ">> \o FormatInt(s[1]) \o <<"x">> \o FormatInt(s[2])
Lists(q) ==
    IF info_args.json
    THEN stdout = <<(<<"[">> \o Join(<<",", " ">>, [i \in 1..Len(q) |-> JsonEntry(q[i])]) \o <<"]">>)>>
    ELSE stdout = <<<<"A", "v", "a", "i", "l", "a", "b", "l", "e", " ", "s", "i", "z", "e", "s", ":">>>> \o [i \in 1..Len(q) |-> TextEntry(q[i])]

\* C22 as claimed: with --size S the report lists the one size convert would use, or the
\* call fails as parse_size_arg(S) does; without --size it lists every available size
\* once, ascending by (area, width, height)
InfoReport ==
    (InfoDone /\ Loaded) =>
        /\ (SizeGiven /\ parse_size_arg(info_args.size).raised)
               => (info_result = parse_size_arg(info_args.size) /\ stdout = <<>>)
        /\ (SizeGiven /\ ~parse_size_arg(info_args.size).raised)
               => (~info_result.raised /\ Lists(<<Chosen>>))
        /\ ~SizeGiven => (~info_result.raised /\ Lists(Ascending))

\* the same for every --size but the empty string
InfoReportNonEmpty == info_args.size # <<>> => InfoReport

(***************************************************************************)
(* Properties of two calls of vectorize at once (SpecCalls)                *)
(***************************************************************************)
\* the call run by itself from its start to its return
RECURSIVE RunAlone(_, _)
RunAlone(f, img) == IF f.pc = "done" THEN f ELSE RunAlone(VecStep(f, img), img)
AllReturned == \A c \in Calls : calls[c].pc = "done"

\* C25: however the steps of two calls on different bitmaps interleave, each call returns
\* what it returns when run alone, and no step changes a bitmap
Independence ==
    /\ [](AllReturned =>
            \A c \in Calls :
                calls[c].result = RunAlone(NewFrame(calls[c].alpha_threshold), bitmaps[c]).result)
    /\ [][bitmaps' = bitmaps]_vars

\* C25 witness: both calls have returned, each with runs, and with different tables
IndependenceWitness ==
    /\ AllReturned
    /\ DOMAIN calls[1].result.color_runs # {}
    /\ DOMAIN calls[2].result.color_runs # {}
    /\ calls[1].result.color_runs # calls[2].result.color_runs

\* C25 witness of an interleaving: the second call has returned while the first is
\* inside a run
InterleavedWitness ==
    /\ calls[2].pc = "done" /\ calls[1].pc = "inner"
    /\ calls[1].color_runs # <<>>
    /\ DOMAIN calls[2].result.color_runs # {}

====
